---- MODULE Spec2Model ----
(***************************************************************************)
(* A model of ngrx-orchestrator (src/src/index.ts).                        *)
(*                                                                         *)
(*  - createDataFlowActions: the four action identifiers derived from a    *)
(*    config, as string concatenations.                                    *)
(*  - getNestedStatePathName / getNestedState: the dotted-path             *)
(*    decomposition and traversal.                                         *)
(*  - onActionGroup: the four handlers.  Each handler is an immer          *)
(*    produce() call; the state is a graph of objects with identity (a     *)
(*    heap), a draft is immer's copy-on-write proxy, and produce's result  *)
(*    is computed as immer computes it (modified drafts become new         *)
(*    objects, unmodified drafts are their base objects).                  *)
(*                                                                         *)
(* Specifications: SpecIds (two createDataFlowActions calls), Spec (one    *)
(* flow on a state that has the container), SpecMissing (one flow on a     *)
(* state that lacks it), SpecTwo (two flows registered in one reducer).    *)
(***************************************************************************)
EXTENDS Integers, Sequences, FiniteSets, TLC

VARIABLES
    config1,            \* GroupedActionsConfig of the first createDataFlowActions call
    config2,            \* GroupedActionsConfig of the second call
    group1,             \* what the first call returned
    group2,             \* what the second call returned
    heap,               \* the objects that exist: heap[i] is the object with identity i
    root,               \* identity of the store's current state object
    initialState,       \* identity of the state object given to onActionGroup
    stateSelector,      \* the path given to onActionGroup
    reducerFunction,    \* which merge function was given to onActionGroup ("none": absent)
    built,              \* "no", "built" or "raised": outcome of onActionGroup
    pathWithoutProperty,\* closure constant of the handlers (index.ts:113)
    propertyName,       \* closure constant of the handlers (index.ts:113)
    initialData,        \* closure constant of the handlers (index.ts:114)
    logged,             \* number of console.error diagnostics emitted
    pre,                \* the heap as it was when the last handler was called
    last,               \* the last handler call: which, on what, with what, how it ended
    steps,              \* number of handler calls so far
    start,              \* identity of the state object the store started with
    history             \* the actions dispatched so far, oldest first

idVars == <<config1, config2, group1, group2>>

flowVars == <<heap, root, initialState, stateSelector, reducerFunction, built,
              pathWithoutProperty, propertyName, initialData, logged, pre, last,
              steps, start, history>>

vars == <<config1, config2, group1, group2, heap, root, initialState,
          stateSelector, reducerFunction, built, pathWithoutProperty,
          propertyName, initialData, logged, pre, last, steps>>

-----------------------------------------------------------------------------
(* Bounds *)

\* handler calls per behaviour
MaxSteps == 3

-----------------------------------------------------------------------------
(* createDataFlowActions *)

Sources == {"Todo", "API", "User"}

ActionStems == {"Load todo list", "Load"}

ActionTails == {"", " Success", " Failure", " Reset"}

ActionTexts == {s \o t : s \in ActionStems, t \in ActionTails}

Configs == [source : Sources, action : ActionTexts]

NoGroup == [made |-> FALSE, load |-> "", loadSuccess |-> "", loadFailure |-> "",
            reset |-> ""]

\* a plausible slip: the success identifier built from the source, like load's
createDataFlowActionsSourceInSuccess(config) ==
    [made        |-> TRUE,
     load        |-> "[" \o config.source \o "] " \o config.action,
     loadSuccess |-> "[" \o config.source \o "] " \o config.action \o " Success",
     loadFailure |-> "[API] " \o config.action \o " Failure",
     reset       |-> "[" \o config.source \o "] " \o config.action \o " Reset"]

\* a plausible slip: the reset identifier without its suffix
createDataFlowActionsResetNoSuffix(config) ==
    [made        |-> TRUE,
     load        |-> "[" \o config.source \o "] " \o config.action,
     loadSuccess |-> "[API] " \o config.action \o " Success",
     loadFailure |-> "[API] " \o config.action \o " Failure",
     reset       |-> "[" \o config.source \o "] " \o config.action]

createDataFlowActions(config) ==
    [made        |-> TRUE,
     load        |-> "[" \o config.source \o "] " \o config.action,
     loadSuccess |-> "[API] " \o config.action \o " Success",
     loadFailure |-> "[API] " \o config.action \o " Failure",
     reset       |-> "[" \o config.source \o "] " \o config.action \o " Reset"]

Identifiers(group) ==
    {group.load, group.loadSuccess, group.loadFailure, group.reset}

-----------------------------------------------------------------------------
(* JavaScript values and objects *)

\* A value is a pair <<type, n>>: a primitive, or a reference to the object
\* heap[n].  During a produce() call a value may also be immer's proxy of
\* draft n of the call.
Undefined == <<"undefined", 0>>

Null == <<"null", 0>>

Bool(b) == <<"boolean", IF b THEN 1 ELSE 0>>

Num(n) == <<"number", n>>

\* error texts: 1 is "network", 2 is "timeout"
Str(n) == <<"string", n>>

Ref(i) == <<"ref", i>>

DraftRef(k) == <<"draft", k>>

NoFields == [x \in {} |-> Undefined]

NewObject(f) == [kind |-> "object", f |-> f, elems |-> <<>>]

NewArray(elems) == [kind |-> "array", f |-> NoFields, elems |-> elems]

\* obj[prop] of a property map: a missing property reads as undefined
Field(f, prop) == IF prop \in DOMAIN f THEN f[prop] ELSE Undefined

\* obj[prop] = value on a property map
Assign(f, prop, value) ==
    [x \in (DOMAIN f) \cup {prop} |-> IF x = prop THEN value ELSE f[x]]

\* A running piece of code: the heap, the drafts immer has created, the error
\* thrown so far ("none": still running) and the local variables (reg).
\* Every statement below takes the running code and returns it one statement
\* further; after a throw no statement has an effect.
Machine(h, locals) == [heap |-> h, drafts |-> <<>>, err |-> "none", reg |-> locals]

Throw(m, e) == [m EXCEPT !.err = e]

\* the value of a local variable
Reg(m, name) == Field(m.reg, name)

\* dst = value
Let(m, dst, value) ==
    IF m.err # "none" THEN m ELSE [m EXCEPT !.reg = Assign(@, dst, value)]

\* dst = src
Move(m, dst, src) == Let(m, dst, Reg(m, src))

\* dst = a new object
New(m, dst, cell) ==
    IF m.err # "none" THEN m
    ELSE [m EXCEPT !.heap = Append(@, cell),
                   !.reg = Assign(@, dst, Ref(Len(m.heap) + 1))]

-----------------------------------------------------------------------------
(* immer: drafts *)

\* immer createProxy: a draft of the object base, child of draft parent
NewDraft(h, base, parent) ==
    [base     |-> base,
     kind     |-> h[base].kind,
     copy     |-> h[base].f,
     modified |-> FALSE,
     parent   |-> parent]

\* produce( state, draft => ... ) entering the recipe: draft is draft 1
EnterProduce(h, state) ==
    [heap   |-> h,
     drafts |-> <<NewDraft(h, state, 0)>>,
     err    |-> "none",
     reg    |-> ("draft" :> DraftRef(1))]

RECURSIVE Ancestors(_, _)
\* the draft k and every draft above it
Ancestors(drafts, k) ==
    IF k = 0 THEN {} ELSE {k} \cup Ancestors(drafts, drafts[k].parent)

\* immer markChanged: the draft and all its ancestors become modified
markChanged(drafts, k) ==
    [j \in DOMAIN drafts |->
        IF j \in Ancestors(drafts, k)
        THEN [drafts[j] EXCEPT !.modified = TRUE]
        ELSE drafts[j]]

\* immer's get trap: reading a draftable property that still holds the base's
\* value creates (and remembers) a child draft
DraftGet(m, dst, k, prop) ==
    LET d     == m.drafts[k]
        value == Field(d.copy, prop)
        newk  == Len(m.drafts) + 1
    IN  IF value[1] = "ref" /\ value = Field(m.heap[d.base].f, prop)
        THEN [m EXCEPT !.drafts =
                          Append([@ EXCEPT ![k].copy = Assign(@, prop, DraftRef(newk))],
                                 NewDraft(m.heap, value[2], k)),
                       !.reg = Assign(@, dst, DraftRef(newk))]
        ELSE [m EXCEPT !.reg = Assign(@, dst, value)]

\* a set trap without the test for an unchanged value: every write copies
DraftSetAlwaysCopies(m, k, prop, value) ==
    LET d       == m.drafts[k]
        current == Field(d.copy, prop)
    IN  IF d.kind = "array"
        THEN Throw(m, "ImmerError")
        ELSE IF ~d.modified /\ current[1] = "draft"
                /\ value = Ref(m.drafts[current[2]].base)
        THEN [m EXCEPT !.drafts[k].copy = Assign(@, prop, value)]
        ELSE [m EXCEPT !.drafts = [markChanged(@, k) EXCEPT ![k].copy =
                                      Assign(@, prop, value)]]

\* a plausible slip: no copy-on-write, the write lands in the base object
DraftSetInPlace(m, k, prop, value) ==
    [m EXCEPT !.heap[m.drafts[k].base].f = Assign(@, prop, value),
              !.drafts = [markChanged(@, k) EXCEPT ![k].copy =
                             Assign(@, prop, value)]]

\* immer's set trap: the first effective write copies the object and marks the
\* draft and its ancestors modified; writing the value the property already
\* has changes nothing
DraftSet(m, k, prop, value) ==
    LET d       == m.drafts[k]
        current == Field(d.copy, prop)
    IN  IF d.kind = "array"
        THEN Throw(m, "ImmerError")
        ELSE IF ~d.modified /\ current[1] = "draft"
                /\ value = Ref(m.drafts[current[2]].base)
        THEN [m EXCEPT !.drafts[k].copy = Assign(@, prop, value)]
        ELSE IF ~d.modified /\ value = current
                /\ (value # Undefined \/ prop \in DOMAIN m.heap[d.base].f)
        THEN m
        ELSE [m EXCEPT !.drafts = [markChanged(@, k) EXCEPT ![k].copy =
                                      Assign(@, prop, value)]]

\* dst = src[prop]
Get(m, dst, src, prop) ==
    LET target == Reg(m, src)
    IN  IF m.err # "none"
        THEN m
        ELSE CASE target[1] \in {"undefined", "null"} -> Throw(m, "TypeError")
               [] target[1] = "ref" ->
                    [m EXCEPT !.reg = Assign(@, dst, Field(m.heap[target[2]].f, prop))]
               [] target[1] = "draft" -> DraftGet(m, dst, target[2], prop)
               [] OTHER -> [m EXCEPT !.reg = Assign(@, dst, Undefined)]

\* tgt[prop] = value (strict mode: a write to a primitive throws)
Put(m, tgt, prop, value) ==
    LET target == Reg(m, tgt)
    IN  IF m.err # "none"
        THEN m
        ELSE CASE target[1] = "ref" ->
                    [m EXCEPT !.heap[target[2]].f = Assign(@, prop, value)]
               [] target[1] = "draft" -> DraftSet(m, target[2], prop, value)
               [] OTHER -> Throw(m, "TypeError")

\* tgt[prop] = src
Set(m, tgt, prop, src) == Put(m, tgt, prop, Reg(m, src))

-----------------------------------------------------------------------------
(* Paths *)

\* A string is the sequence of its pieces: "." or a run of other characters.
Dot == "."

RECURSIVE split(_)
\* String.prototype.split('.')
split(s) ==
    IF \A i \in 1..Len(s) : s[i] # Dot
    THEN <<s>>
    ELSE LET i == CHOOSE j \in 1..Len(s) :
                     s[j] = Dot /\ \A m \in 1..(j - 1) : s[m] # Dot
         IN  <<SubSeq(s, 1, i - 1)>> \o split(SubSeq(s, i + 1, Len(s)))

RECURSIVE join(_)
\* Array.prototype.join('.')
join(a) ==
    IF a = <<>> THEN <<>>
    ELSE IF Len(a) = 1 THEN a[1]
    ELSE a[1] \o <<Dot>> \o join(Tail(a))

RECURSIVE Key(_)
\* the property key a string denotes
Key(s) == IF s = <<>> THEN "" ELSE s[1] \o Key(Tail(s))

\* Array.prototype.pop(): the array left, and the element or undefined
pop(a) ==
    IF a = <<>>
    THEN [rest |-> <<>>, defined |-> FALSE, val |-> <<>>]
    ELSE [rest |-> SubSeq(a, 1, Len(a) - 1), defined |-> TRUE, val |-> a[Len(a)]]

\* x ?? d
Nullish(x, d) == IF x.defined THEN x.val ELSE d

\* a plausible slip: the path joined before the property name is popped
getNestedStatePathNameJoinsFirst(selector) ==
    LET possibleNestedPath == split(selector)
        isNestedPath       == Len(possibleNestedPath) > 1
        p1                 == pop(possibleNestedPath)
        p2                 == pop(p1.rest)
    IN  [propertyName        |-> Nullish(p1, selector),
         pathWithoutProperty |-> Nullish([defined |-> TRUE,
                                          val |-> join(possibleNestedPath)],
                                         selector),
         parentName          |-> Nullish(p2, selector),
         diagnostics         |-> IF isNestedPath THEN 0 ELSE 1]

getNestedStatePathName(selector) ==
    LET possibleNestedPath == split(selector)
        isNestedPath       == Len(possibleNestedPath) > 1
        p1                 == pop(possibleNestedPath)
        p2                 == pop(p1.rest)
    IN  [propertyName        |-> Nullish(p1, selector),
         \* join never yields null or undefined: its ?? never applies
         pathWithoutProperty |-> Nullish([defined |-> TRUE, val |-> join(p1.rest)],
                                         selector),
         parentName          |-> Nullish(p2, selector),
         diagnostics         |-> IF isNestedPath THEN 0 ELSE 1]

RECURSIVE Walk(_, _, _)
\* for ( let path of possibleNestedPath ) nestedState = nestedState[path]
Walk(m, nestedState, segments) ==
    IF segments = <<>>
    THEN m
    ELSE Walk(Get(m, nestedState, nestedState, Key(segments[1])), nestedState,
              Tail(segments))

\* a plausible slip: a failed walk is caught and the argument returned as it is
getNestedStateCatches(selector, nestedState, m) ==
    LET possibleNestedPath == split(selector)
        isNestedPath       == Len(possibleNestedPath) > 1
        walked             == IF ~isNestedPath
                              THEN Get(m, nestedState, nestedState, Key(selector))
                              ELSE Walk(m, nestedState, possibleNestedPath)
    IN  IF walked.err # "none" THEN m ELSE walked

\* the local variable nestedState holds the argument, then the value returned
getNestedState(selector, nestedState, m) ==
    LET possibleNestedPath == split(selector)
        isNestedPath       == Len(possibleNestedPath) > 1
    IN  IF ~isNestedPath
        THEN Get(m, nestedState, nestedState, Key(selector))
        ELSE Walk(m, nestedState, possibleNestedPath)

-----------------------------------------------------------------------------
(* State shapes and payloads *)

\* A literal is a value as written down, before it exists as an object.
NullLit == [kind |-> "null", n |-> 0, elems |-> <<>>]

NumLit(n) == [kind |-> "number", n |-> n, elems |-> <<>>]

ArrayLit(elems) == [kind |-> "array", n |-> 0, elems |-> elems]

\* dst = literal: an array literal creates a new array
Materialize(m, dst, lit) ==
    CASE lit.kind = "array" -> New(m, dst, NewArray(lit.elems))
      [] lit.kind = "number" -> Let(m, dst, Num(lit.n))
      [] OTHER -> Let(m, dst, Null)

RECURSIVE Wrap(_, _, _)
\* the objects around a container: { seg: { seg: ... container } }; the
\* outermost also has a field of its own
Wrap(m, r, segments) ==
    IF segments = <<>>
    THEN m
    ELSE Wrap(Move(Set(New(m, "wrapper",
                           NewObject(IF Len(segments) = 1
                                     THEN "count" :> Num(0)
                                     ELSE NoFields)),
                       "wrapper", Key(segments[Len(segments)]), r),
                   r, "wrapper"),
              r, SubSeq(segments, 1, Len(segments) - 1))

\* a state in which shape addresses a container
\* { leaf, loading, errors, page }
BuildState(h, shape, leafLit, loading, errs, page) ==
    LET segments == split(shape)
        m1 == New(Machine(h, NoFields), "errors", NewArray(errs))
        m2 == Materialize(m1, "leaf", leafLit)
        m3 == New(m2, "state", NewObject(("loading" :> Bool(loading))
                                         @@ ("page" :> Num(page))))
        m4 == Set(m3, "state", Key(segments[Len(segments)]), "leaf")
        m5 == Set(m4, "state", "errors", "errors")
        m6 == Wrap(m5, "state", SubSeq(segments, 1, Len(segments) - 1))
    IN  [heap |-> m6.heap, root |-> Reg(m6, "state")[2]]

\* a state in which the k-th segment of shape is missing: absent (it reads as
\* undefined) or null; the segments before it are objects
BuildStateMissing(h, shape, k, missing) ==
    LET segments == split(shape)
        m1 == New(Machine(h, NoFields), "state",
                  NewObject(IF k = 1 THEN "count" :> Num(0) ELSE NoFields))
        m2 == IF missing = Null
              THEN Put(m1, "state", Key(segments[k]), Null)
              ELSE m1
        m3 == Wrap(m2, "state", SubSeq(segments, 1, k - 1))
    IN  [heap |-> m3.heap, root |-> Reg(m3, "state")[2]]

\* 'list.data' (README.md:286), a deeper path, and a top-level property
ListData == <<"list", Dot, "data">>

ABC == <<"a", Dot, "b", Dot, "c">>

Data == <<"data">>

Selectors == {ListData, ABC, Data}

\* the leaf of the initial state, per shape
InitialLeaf(shape) ==
    CASE shape = ListData -> ArrayLit(<<>>)
      [] shape = ABC -> NumLit(1)
      [] OTHER -> NullLit

\* leaves of the states the store may start in
StartLeaves(shape) ==
    IF shape = ListData THEN {ArrayLit(<<Num(1), Num(2)>>)} ELSE {NumLit(5)}

\* what loadSuccess may carry
SuccessPayloads == {NumLit(1), ArrayLit(<<Num(1), Num(2)>>)}

\* what loadFailure may carry
FailurePayloads == {ArrayLit(<<Str(1)>>), ArrayLit(<<Str(2), Str(1)>>)}

\* errors the store's starting state may hold
StartErrors == {<<>>, <<Str(1)>>}

\* the container's field the handlers have no business with: its value in the
\* initial state, and the values it may have in the state the store starts in
InitialPage == 0

StartPages == {0, 3}

\* what load may carry (README.md:38: props<{ param: string }>)
LoadParams == {1, 2}

-----------------------------------------------------------------------------
(* Merge functions (the optional reducerFunction of onActionGroup) *)

\* Each takes its arguments in the locals state and data and leaves what it
\* returns in the local nextState.

IsArray(m, v) ==
    \/ v[1] = "ref" /\ m.heap[v[2]].kind = "array"
    \/ v[1] = "draft" /\ m.drafts[v[2]].kind = "array"

\* the elements of an array value
ElemsOf(m, v) ==
    IF v[1] = "ref" THEN m.heap[v[2]].elems
    ELSE m.heap[m.drafts[v[2]].base].elems

\* own keys of an object value
KeysOf(m, v) ==
    IF v[1] = "ref" THEN DOMAIN m.heap[v[2]].f
    ELSE IF v[1] = "draft" THEN DOMAIN m.drafts[v[2]].copy
    ELSE {}

RECURSIVE SpreadKeys(_, _, _, _)
\* dst[k] = src[k] for every key k
SpreadKeys(m, dst, src, keys) ==
    IF keys = {}
    THEN m
    ELSE LET k == CHOOSE x \in keys : TRUE
         IN  SpreadKeys(Set(Get(m, "spread", src, k), dst, k, "spread"),
                        dst, src, keys \ {k})

\* dst = { ...src }
Spread(m, dst, src) ==
    SpreadKeys(New(m, dst, NewObject(NoFields)), dst, src, KeysOf(m, Reg(m, src)))

\* dst = src.filter( d => d != data ): a new array
Filter(m, dst, src) ==
    IF m.err # "none" THEN m
    ELSE IF ~IsArray(m, Reg(m, src)) THEN Throw(m, "TypeError")
    ELSE New(m, dst, NewArray(SelectSeq(ElemsOf(m, Reg(m, src)),
                                        LAMBDA d : d # Reg(m, "data"))))

\* (state, deletedId) => ({ ...state, list: { ...state.list,
\*                          data: state.list.data.filter( d => d != deletedId ) } })
filterSpread(m) ==
    LET m1 == Spread(m, "nextState", "state")
        m2 == Get(m1, "list", "state", "list")
        m3 == Spread(m2, "container", "list")
        m4 == Get(m3, "list", "state", "list")
        m5 == Get(m4, "array", "list", "data")
        m6 == Filter(m5, "filtered", "array")
        m7 == Set(m6, "container", "data", "filtered")
    IN  Set(m7, "nextState", "list", "container")

\* (state, deletedId) => { state.list.data = state.list.data.filter( ... );
\*                         return state }
filterMutate(m) ==
    LET m1 == Get(m, "target", "state", "list")
        m2 == Get(m1, "list", "state", "list")
        m3 == Get(m2, "array", "list", "data")
        m4 == Filter(m3, "filtered", "array")
        m5 == Set(m4, "target", "data", "filtered")
    IN  Move(m5, "nextState", "state")

\* (state, n) => ({ ...state, count: n }): a merge into a field outside the
\* addressed container
countSpread(m) ==
    Set(Spread(m, "nextState", "state"), "nextState", "count", "data")

MergeKinds == {"filterSpread", "filterMutate", "countSpread"}

\* nextState = reducerFunction( state, data )
ApplyReducerFunction(kind, m) ==
    CASE kind = "filterSpread" -> filterSpread(m)
      [] kind = "filterMutate" -> filterMutate(m)
      [] OTHER -> countSpread(m)

\* the merge functions that fit a state shape
ReducerFunctions(shape) ==
    IF shape = ListData THEN {"none"} \cup MergeKinds ELSE {"none"}

-----------------------------------------------------------------------------
(* immer: the result of produce *)

\* immer finalize: every modified draft becomes a new object holding its copy,
\* every unmodified draft is its base object, and drafts held by new plain
\* objects are replaced likewise
Finalize(m, value) ==
    LET drafts   == m.drafts
        modified == {k \in DOMAIN drafts : drafts[k].modified}
        NewId(k) == Len(m.heap) + Cardinality({j \in modified : j <= k})
        Fin(v)   == IF v[1] = "draft"
                    THEN IF drafts[v[2]].modified
                         THEN Ref(NewId(v[2]))
                         ELSE Ref(drafts[v[2]].base)
                    ELSE v
        FinFields(f) == [x \in DOMAIN f |-> Fin(f[x])]
        FinElems(e)  == [i \in 1..Len(e) |-> Fin(e[i])]
        DraftOf(i)   == CHOOSE k \in modified : NewId(k) = i
    IN  [heap |-> [i \in 1..(Len(m.heap) + Cardinality(modified)) |->
                     IF i <= Len(m.heap)
                     THEN [m.heap[i] EXCEPT !.f = FinFields(@),
                                            !.elems = FinElems(@)]
                     ELSE [kind  |-> drafts[DraftOf(i)].kind,
                           f     |-> FinFields(drafts[DraftOf(i)].copy),
                           elems |-> m.heap[drafts[DraftOf(i)].base].elems]],
         root |-> Fin(value)[2],
         err  |-> "none"]

\* the recipe threw, or immer refused its result: nothing is produced, the
\* objects that existed before the call stay as the call left them
Failed(h, m, e) ==
    [heap |-> SubSeq(m.heap, 1, Len(h)), root |-> 0, err |-> e]

\* immer processResult: a recipe may return a new value or modify its draft,
\* not both; the local variable return holds what the recipe returned
processResult(h, m) ==
    LET result     == Reg(m, "return")
        isReplaced == result # Undefined /\ result # DraftRef(1)
    IN  IF m.err # "none"
        THEN Failed(h, m, m.err)
        ELSE IF isReplaced /\ m.drafts[1].modified
        THEN Failed(h, m, "ImmerError")
        ELSE IF isReplaced /\ result[1] \notin {"ref", "draft"}
        THEN Failed(h, m, "NotAnObject")
        ELSE Finalize(m, IF isReplaced THEN result ELSE DraftRef(1))

-----------------------------------------------------------------------------
(* onActionGroup: the four handlers *)

\* the names and the snapshot the handlers close over
Closure == [pathWithoutProperty |-> pathWithoutProperty,
            propertyName        |-> propertyName,
            initialData         |-> initialData,
            reducerFunction     |-> reducerFunction]

\* a plausible slip: load leaves the errors of the previous failure in place
onLoadKeepsErrors(cl, h, state) ==
    LET m1 == EnterProduce(h, state)
        m2 == Move(m1, "nestedState", "draft")
        m3 == getNestedState(cl.pathWithoutProperty, "nestedState", m2)
        m4 == Put(m3, "nestedState", "loading", Bool(TRUE))
    IN  processResult(h, m4)

onLoad(cl, h, state) ==
    LET m1 == EnterProduce(h, state)
        m2 == Move(m1, "nestedState", "draft")
        m3 == getNestedState(cl.pathWithoutProperty, "nestedState", m2)
        m4 == Put(m3, "nestedState", "loading", Bool(TRUE))
        m5 == New(m4, "empty", NewArray(<<>>))
        m6 == Set(m5, "nestedState", "errors", "empty")
    IN  processResult(h, m6)

\* a plausible slip: the data stored in the root state, not in the container
onLoadSuccessWritesRoot(cl, h, state, data) ==
    LET m1 == Move(Let(EnterProduce(h, state), "data", data), "state", "draft")
        m2 == IF cl.reducerFunction # "none"
              THEN ApplyReducerFunction(cl.reducerFunction, m1)
              ELSE Move(m1, "nextState", "draft")
        m3 == Move(m2, "nestedState", "nextState")
        m4 == getNestedState(cl.pathWithoutProperty, "nestedState", m3)
        m5 == IF cl.reducerFunction = "none"
              THEN Set(m4, "nextState", Key(cl.propertyName), "data")
              ELSE m4
        m6 == New(m5, "empty", NewArray(<<>>))
        m7 == Set(m6, "nestedState", "errors", "empty")
        m8 == Put(m7, "nestedState", "loading", Bool(FALSE))
        m9 == Move(m8, "return", "nextState")
    IN  processResult(h, m9)

\* a plausible slip: loadSuccess stores the data and leaves loading as it
\* finds it
onLoadSuccessKeepsLoading(cl, h, state, data) ==
    LET m1 == Move(Let(EnterProduce(h, state), "data", data), "state", "draft")
        m2 == IF cl.reducerFunction # "none"
              THEN ApplyReducerFunction(cl.reducerFunction, m1)
              ELSE Move(m1, "nextState", "draft")
        m3 == Move(m2, "nestedState", "nextState")
        m4 == getNestedState(cl.pathWithoutProperty, "nestedState", m3)
        m5 == IF cl.reducerFunction = "none"
              THEN Set(m4, "nestedState", Key(cl.propertyName), "data")
              ELSE m4
        m6 == New(m5, "empty", NewArray(<<>>))
        m7 == Set(m6, "nestedState", "errors", "empty")
        m9 == Move(m7, "return", "nextState")
    IN  processResult(h, m9)

\* a plausible slip: the test for the merge function inverted
onLoadSuccessInverted(cl, h, state, data) ==
    LET m1 == Move(Let(EnterProduce(h, state), "data", data), "state", "draft")
        m2 == IF cl.reducerFunction # "none"
              THEN ApplyReducerFunction(cl.reducerFunction, m1)
              ELSE Move(m1, "nextState", "draft")
        m3 == Move(m2, "nestedState", "nextState")
        m4 == getNestedState(cl.pathWithoutProperty, "nestedState", m3)
        m5 == IF cl.reducerFunction # "none"
              THEN Set(m4, "nestedState", Key(cl.propertyName), "data")
              ELSE m4
        m6 == New(m5, "empty", NewArray(<<>>))
        m7 == Set(m6, "nestedState", "errors", "empty")
        m8 == Put(m7, "nestedState", "loading", Bool(FALSE))
        m9 == Move(m8, "return", "nextState")
    IN  processResult(h, m9)

onLoadSuccess(cl, h, state, data) ==
    LET m1 == Move(Let(EnterProduce(h, state), "data", data), "state", "draft")
        m2 == IF cl.reducerFunction # "none"
              THEN ApplyReducerFunction(cl.reducerFunction, m1)
              ELSE Move(m1, "nextState", "draft")
        m3 == Move(m2, "nestedState", "nextState")
        m4 == getNestedState(cl.pathWithoutProperty, "nestedState", m3)
        m5 == IF cl.reducerFunction = "none"
              THEN Set(m4, "nestedState", Key(cl.propertyName), "data")
              ELSE m4
        m6 == New(m5, "empty", NewArray(<<>>))
        m7 == Set(m6, "nestedState", "errors", "empty")
        m8 == Put(m7, "nestedState", "loading", Bool(FALSE))
        m9 == Move(m8, "return", "nextState")
    IN  processResult(h, m9)

\* a plausible slip: loadFailure leaves loading as it finds it
onLoadFailureKeepsLoading(cl, h, state, errors) ==
    LET m1 == Let(EnterProduce(h, state), "errors", errors)
        m2 == Move(m1, "nestedState", "draft")
        m3 == getNestedState(cl.pathWithoutProperty, "nestedState", m2)
        m5 == Set(m3, "nestedState", "errors", "errors")
    IN  processResult(h, m5)

\* a plausible slip: the new errors appended to the old ones
onLoadFailureAppends(cl, h, state, errors) ==
    LET m1 == Let(EnterProduce(h, state), "errors", errors)
        m2 == Move(m1, "nestedState", "draft")
        m3 == getNestedState(cl.pathWithoutProperty, "nestedState", m2)
        m4 == Put(m3, "nestedState", "loading", Bool(FALSE))
        m5 == Get(m4, "old", "nestedState", "errors")
        m6 == New(m5, "both", NewArray(ElemsOf(m5, Reg(m5, "old"))
                                       \o ElemsOf(m5, errors)))
        m7 == Set(m6, "nestedState", "errors", "both")
    IN  processResult(h, m7)

onLoadFailure(cl, h, state, errors) ==
    LET m1 == Let(EnterProduce(h, state), "errors", errors)
        m2 == Move(m1, "nestedState", "draft")
        m3 == getNestedState(cl.pathWithoutProperty, "nestedState", m2)
        m4 == Put(m3, "nestedState", "loading", Bool(FALSE))
        m5 == Set(m4, "nestedState", "errors", "errors")
    IN  processResult(h, m5)

\* a plausible slip: reset clears the bookkeeping and forgets the leaf
onResetKeepsLeaf(cl, h, state) ==
    LET m1 == EnterProduce(h, state)
        m2 == Move(m1, "nestedState", "draft")
        m3 == getNestedState(cl.pathWithoutProperty, "nestedState", m2)
        m5 == New(m3, "empty", NewArray(<<>>))
        m6 == Set(m5, "nestedState", "errors", "empty")
        m7 == Put(m6, "nestedState", "loading", Bool(FALSE))
    IN  processResult(h, m7)

onReset(cl, h, state) ==
    LET m1 == EnterProduce(h, state)
        m2 == Move(m1, "nestedState", "draft")
        m3 == getNestedState(cl.pathWithoutProperty, "nestedState", m2)
        m4 == Put(m3, "nestedState", Key(cl.propertyName), cl.initialData)
        m5 == New(m4, "empty", NewArray(<<>>))
        m6 == Set(m5, "nestedState", "errors", "empty")
        m7 == Put(m6, "nestedState", "loading", Bool(FALSE))
    IN  processResult(h, m7)

-----------------------------------------------------------------------------
(* Reading a state *)

RECURSIVE At(_, _, _)
\* the value reached from v through the named properties
At(h, v, segments) ==
    IF segments = <<>> THEN v
    ELSE IF v[1] # "ref" THEN Undefined
    ELSE At(h, Field(h[v[2]].f, Key(segments[1])), Tail(segments))

\* the selector addresses a property inside a nested container
NestedSelector == Len(split(stateSelector)) > 1

\* the container the selector addresses in the state r: the object reached
\* through all segments but the last (the state itself for a single segment)
AddressedContainer(h, r) ==
    LET segments == split(stateSelector)
    IN  At(h, Ref(r), SubSeq(segments, 1, Len(segments) - 1))

LeafName == LET segments == split(stateSelector) IN Key(segments[Len(segments)])

\* a property of the addressed container of the state r
Prop(h, r, name) ==
    LET c == AddressedContainer(h, r)
    IN  IF c[1] = "ref" THEN Field(h[c[2]].f, name) ELSE Undefined

IsEmptyArray(h, v) ==
    v[1] = "ref" /\ h[v[2]].kind = "array" /\ h[v[2]].elems = <<>>

\* the elements of the errors of the state r
ErrorsOf(h, r) ==
    LET e == Prop(h, r, "errors")
    IN  IF e[1] = "ref" THEN h[e[2]].elems ELSE <<>>

RECURSIVE DeepEq(_, _, _, _)
\* structural equality of a value of one heap and a value of another
DeepEq(h1, v1, h2, v2) ==
    IF v1[1] = "ref" /\ v2[1] = "ref"
    THEN LET c1 == h1[v1[2]]
             c2 == h2[v2[2]]
         IN  /\ c1.kind = c2.kind
             /\ DOMAIN c1.f = DOMAIN c2.f
             /\ \A k \in DOMAIN c1.f : DeepEq(h1, c1.f[k], h2, c2.f[k])
             /\ Len(c1.elems) = Len(c2.elems)
             /\ \A i \in 1..Len(c1.elems) : DeepEq(h1, c1.elems[i], h2, c2.elems[i])
    ELSE v1 = v2

RECURSIVE Reach(_, _, _)
\* the objects reachable from the objects todo, besides those in done
Reach(h, todo, done) ==
    IF todo = {} THEN done
    ELSE LET i    == CHOOSE x \in todo : TRUE
             cell == h[i]
             out  == {cell.f[k][2] : k \in {x \in DOMAIN cell.f : cell.f[x][1] = "ref"}}
                     \cup {cell.elems[n][2] :
                              n \in {x \in 1..Len(cell.elems) : cell.elems[x][1] = "ref"}}
         IN  Reach(h, (todo \cup out) \ (done \cup {i}), done \cup {i})

\* the addressed container of the state r has a boolean loading and an array
\* errors
WellFormed(h, r) ==
    LET e == Prop(h, r, "errors")
    IN  /\ Prop(h, r, "loading") \in {Bool(TRUE), Bool(FALSE)}
        /\ e[1] = "ref"
        /\ h[e[2]].kind = "array"

\* the state r has no addressed container: a segment before the leaf is
\* undefined or null
MissingContainer(h, r) == AddressedContainer(h, r) \in {Undefined, Null}

\* the objects from the state r down to its addressed container, outermost
\* first
Levels(h, r) ==
    LET segments == split(stateSelector)
    IN  [n \in 1..Len(segments) |-> At(h, Ref(r), SubSeq(segments, 1, n - 1))]

\* the last call wrote, property by property, the very values the container
\* held: a loadFailure carrying the array the state holds as its errors, on a
\* state whose loading is false
WritesNothingNew ==
    /\ last.op = "loadFailure"
    /\ Prop(pre, last.arg, "loading") = Bool(FALSE)
    /\ Prop(pre, last.arg, "errors") = last.payload

\* the place of the last "." of a string that has one
LastDot(s) == CHOOSE i \in 1..Len(s) : s[i] = Dot /\ \A j \in (i + 1)..Len(s) : s[j] # Dot

\* what precedes the last "." of a string that has one
BeforeLastDot(s) == SubSeq(s, 1, LastDot(s) - 1)

\* what follows the last "." of a string, the whole string if it has none
AfterLastDot(s) ==
    IF \A i \in 1..Len(s) : s[i] # Dot THEN s ELSE SubSeq(s, LastDot(s) + 1, Len(s))

\* two objects have the same properties with the same values (the same
\* primitive, or the same object unchanged), but for the properties keys
SameBut(h1, v1, h2, v2, keys) ==
    /\ v1[1] = "ref"
    /\ v2[1] = "ref"
    /\ DOMAIN h1[v1[2]].f \ keys = DOMAIN h2[v2[2]].f \ keys
    /\ \A k \in DOMAIN h1[v1[2]].f \ keys :
          /\ h1[v1[2]].f[k] = h2[v2[2]].f[k]
          /\ DeepEq(h1, h1[v1[2]].f[k], h2, h2[v2[2]].f[k])

\* a handler has been called and has returned a state
Returned(op) == built = "built" /\ last.op = op /\ last.thrown = "none"

-----------------------------------------------------------------------------
(* The store *)

NoCall == [op |-> "none", arg |-> 0, payload |-> Undefined, thrown |-> "none"]

\* the dispatcher installs what the handler returned; a handler that throws
\* leaves the store's state as it was
Install(op, h, payload, result) ==
    /\ pre' = h
    /\ heap' = result.heap
    /\ root' = IF result.err = "none" THEN result.root ELSE root
    /\ last' = [op |-> op, arg |-> root, payload |-> payload, thrown |-> result.err]
    /\ steps' = steps + 1
    /\ history' = Append(history, [op |-> op, payload |-> payload])
    /\ UNCHANGED start

\* onActionGroup( actionGroup, stateSelector, state, reducerFunction ), up to
\* the capture of initialData
OnActionGroup ==
    /\ built = "no"
    /\ LET names == getNestedStatePathName(stateSelector)
           read  == getNestedState(stateSelector, "state",
                                   Machine(heap, "state" :> Ref(initialState)))
       IN  /\ logged' = logged + names.diagnostics
           /\ IF read.err # "none"
              THEN /\ built' = "raised"
                   /\ UNCHANGED <<pathWithoutProperty, propertyName, initialData>>
              ELSE /\ built' = "built"
                   /\ pathWithoutProperty' = names.pathWithoutProperty
                   /\ propertyName' = names.propertyName
                   /\ initialData' = Reg(read, "state")
    /\ UNCHANGED <<heap, root, initialState, stateSelector, reducerFunction, pre,
                   last, steps, start, history>>
    /\ UNCHANGED idVars

Load ==
    /\ built = "built"
    /\ steps < MaxSteps
    /\ \E param \in LoadParams :
          Install("load", heap, Str(param), onLoad(Closure, heap, root))
    /\ UNCHANGED <<initialState, stateSelector, reducerFunction, built,
                   pathWithoutProperty, propertyName, initialData, logged>>
    /\ UNCHANGED idVars

LoadSuccess ==
    /\ built = "built"
    /\ steps < MaxSteps
    /\ \E lit \in SuccessPayloads :
          LET action == Materialize(Machine(heap, NoFields), "data", lit)
          IN  Install("loadSuccess", action.heap, Reg(action, "data"),
                      onLoadSuccess(Closure, action.heap, root, Reg(action, "data")))
    /\ UNCHANGED <<initialState, stateSelector, reducerFunction, built,
                   pathWithoutProperty, propertyName, initialData, logged>>
    /\ UNCHANGED idVars

LoadFailure ==
    /\ built = "built"
    /\ steps < MaxSteps
    /\ \/ \E lit \in FailurePayloads :
             LET action == Materialize(Machine(heap, NoFields), "errors", lit)
             IN  Install("loadFailure", action.heap, Reg(action, "errors"),
                         onLoadFailure(Closure, action.heap, root,
                                       Reg(action, "errors")))
       \* the action carries the very array the state holds as its errors
       \/ /\ Prop(heap, root, "errors")[1] = "ref"
          /\ Install("loadFailure", heap, Prop(heap, root, "errors"),
                     onLoadFailure(Closure, heap, root, Prop(heap, root, "errors")))
    /\ UNCHANGED <<initialState, stateSelector, reducerFunction, built,
                   pathWithoutProperty, propertyName, initialData, logged>>
    /\ UNCHANGED idVars

Reset ==
    /\ built = "built"
    /\ steps < MaxSteps
    /\ Install("reset", heap, Undefined, onReset(Closure, heap, root))
    /\ UNCHANGED <<initialState, stateSelector, reducerFunction, built,
                   pathWithoutProperty, propertyName, initialData, logged>>
    /\ UNCHANGED idVars

\* the action group the handlers are registered for
TodoConfig == [source |-> "Todo", action |-> "Load todo list"]

Init ==
    /\ config1 = TodoConfig
    /\ config2 = TodoConfig
    /\ group1 = createDataFlowActions(TodoConfig)
    /\ group2 = NoGroup
    /\ stateSelector \in Selectors
    /\ reducerFunction \in ReducerFunctions(stateSelector)
    /\ \E same \in BOOLEAN, loading \in BOOLEAN, errs \in StartErrors :
       \E leaf \in StartLeaves(stateSelector), page \in StartPages :
          LET initial == BuildState(<<>>, stateSelector,
                                    InitialLeaf(stateSelector), FALSE, <<>>,
                                    InitialPage)
              other   == BuildState(initial.heap, stateSelector, leaf, loading,
                                    errs, page)
          IN  /\ initialState = initial.root
              /\ IF same
                 THEN heap = initial.heap /\ root = initial.root
                 ELSE heap = other.heap /\ root = other.root
    /\ start = root
    /\ history = <<>>
    /\ built = "no"
    /\ pathWithoutProperty = <<>>
    /\ propertyName = <<>>
    /\ initialData = Undefined
    /\ logged = 0
    /\ pre = heap
    /\ last = NoCall
    /\ steps = 0

\* states that lack the container: either the initial state given to
\* onActionGroup (and the store starts with it), or the state the store starts
\* with while the initial state is complete
InitMissing ==
    /\ config1 = TodoConfig
    /\ config2 = TodoConfig
    /\ group1 = createDataFlowActions(TodoConfig)
    /\ group2 = NoGroup
    /\ stateSelector \in {ListData, ABC}
    /\ reducerFunction \in ReducerFunctions(stateSelector)
    /\ \E inInitial \in BOOLEAN, missing \in {Undefined, Null} :
       \E k \in 1..(Len(split(stateSelector)) - 1) :
          LET broken  == BuildStateMissing(<<>>, stateSelector, k, missing)
              initial == BuildState(<<>>, stateSelector,
                                    InitialLeaf(stateSelector), FALSE, <<>>,
                                    InitialPage)
              other   == BuildStateMissing(initial.heap, stateSelector, k, missing)
          IN  IF inInitial
              THEN /\ heap = broken.heap
                   /\ initialState = broken.root
                   /\ root = broken.root
              ELSE /\ heap = other.heap
                   /\ initialState = initial.root
                   /\ root = other.root
    /\ start = root
    /\ history = <<>>
    /\ built = "no"
    /\ pathWithoutProperty = <<>>
    /\ propertyName = <<>>
    /\ initialData = Undefined
    /\ logged = 0
    /\ pre = heap
    /\ last = NoCall
    /\ steps = 0

Next ==
    \/ OnActionGroup
    \/ Load
    \/ LoadSuccess
    \/ LoadFailure
    \/ Reset

Spec == Init /\ [][Next]_vars

SpecMissing == InitMissing /\ [][Next]_vars

-----------------------------------------------------------------------------
(* Two calls of createDataFlowActions *)

Create1 ==
    /\ ~group1.made
    /\ group1' = createDataFlowActions(config1)
    /\ UNCHANGED <<config1, config2, group2>>
    /\ UNCHANGED flowVars

Create2 ==
    /\ ~group2.made
    /\ group2' = createDataFlowActions(config2)
    /\ UNCHANGED <<config1, config2, group1>>
    /\ UNCHANGED flowVars

InitIds ==
    /\ config1 \in Configs
    /\ config2 \in Configs
    /\ group1 = NoGroup
    /\ group2 = NoGroup
    /\ heap = <<>>
    /\ root = 0
    /\ initialState = 0
    /\ stateSelector = <<>>
    /\ reducerFunction = "none"
    /\ built = "no"
    /\ pathWithoutProperty = <<>>
    /\ propertyName = <<>>
    /\ initialData = Undefined
    /\ logged = 0
    /\ pre = <<>>
    /\ last = NoCall
    /\ steps = 0
    /\ start = 0
    /\ history = <<>>

NextIds == Create1 \/ Create2

SpecIds == InitIds /\ [][NextIds]_vars

-----------------------------------------------------------------------------
(* Two action groups in one reducer *)

\* createReducer( initialState, ...onActionGroup( group1, 'list.data',
\* initialState ), ...onActionGroup( group2, 'details.data', initialState ) ):
\* an action dispatched goes through every handler registered for its type, in
\* the order of registration.

\* 'details.data' (README.md:166)
DetailsData == <<"details", Dot, "data">>

Flows == {1, 2}

FlowSelector(flow) == IF flow = 1 THEN ListData ELSE DetailsData

\* configs of the two groups
TwoConfigs == {c \in Configs : c.source \in {"Todo", "User"} /\ c.action \in ActionStems}

\* { list: { data: [], loading: false, errors: [], page: 0 },
\*   details: { data: null, loading: false, errors: [], page: 0 }, count: 0 }
BuildTwoState(h) ==
    LET m1  == New(Machine(h, NoFields), "leaf", NewArray(<<>>))
        m2  == New(m1, "errors", NewArray(<<>>))
        m3  == New(m2, "list", NewObject(("loading" :> Bool(FALSE))
                                         @@ ("page" :> Num(InitialPage))))
        m4  == Set(m3, "list", "data", "leaf")
        m5  == Set(m4, "list", "errors", "errors")
        m6  == New(m5, "errors", NewArray(<<>>))
        m7  == New(m6, "details", NewObject(("loading" :> Bool(FALSE))
                                            @@ ("page" :> Num(InitialPage))
                                            @@ ("data" :> Null)))
        m8  == Set(m7, "details", "errors", "errors")
        m9  == New(m8, "state", NewObject("count" :> Num(0)))
        m10 == Set(m9, "state", "list", "list")
        m11 == Set(m10, "state", "details", "details")
    IN  [heap |-> m11.heap, root |-> Reg(m11, "state")[2]]

\* what the handlers of a flow close over (index.ts:113-114)
ClosureOf(flow) ==
    LET names == getNestedStatePathName(FlowSelector(flow))
        read  == getNestedState(FlowSelector(flow), "state",
                                Machine(heap, "state" :> Ref(initialState)))
    IN  [pathWithoutProperty |-> names.pathWithoutProperty,
         propertyName        |-> names.propertyName,
         initialData         |-> Reg(read, "state"),
         reducerFunction     |-> "none"]

\* the handlers in the order they are registered
Registrations ==
    <<[flow |-> 1, op |-> "load"], [flow |-> 1, op |-> "loadSuccess"],
      [flow |-> 1, op |-> "loadFailure"], [flow |-> 1, op |-> "reset"],
      [flow |-> 2, op |-> "load"], [flow |-> 2, op |-> "loadSuccess"],
      [flow |-> 2, op |-> "loadFailure"], [flow |-> 2, op |-> "reset"]>>

\* the action type a handler is registered for: on( actionGroup.load, ... )
TypeOf(flow, op) ==
    LET group == IF flow = 1 THEN group1 ELSE group2
    IN  CASE op = "load" -> group.load
          [] op = "loadSuccess" -> group.loadSuccess
          [] op = "loadFailure" -> group.loadFailure
          [] OTHER -> group.reset

\* one registered handler applied to the state st.root and the action
Handle(reg, action, st) ==
    CASE reg.op = "load" -> onLoad(ClosureOf(reg.flow), st.heap, st.root)
      [] reg.op = "loadSuccess" ->
            onLoadSuccess(ClosureOf(reg.flow), st.heap, st.root, action.data)
      [] reg.op = "loadFailure" ->
            onLoadFailure(ClosureOf(reg.flow), st.heap, st.root, action.errors)
      [] OTHER -> onReset(ClosureOf(reg.flow), st.heap, st.root)

RECURSIVE reducer(_, _, _)
\* the reducer: every handler whose type is the action's, one after the other;
\* a handler that throws ends it
reducer(regs, action, st) ==
    IF regs = <<>> \/ st.err # "none"
    THEN st
    ELSE reducer(Tail(regs), action,
                 IF TypeOf(regs[1].flow, regs[1].op) = action.type
                 THEN Handle(regs[1], action, st)
                 ELSE st)

\* the store installs what the reducer returned; a reducer that throws leaves
\* the store's state as it was
InstallTwo(flow, op, h, payload, result) ==
    /\ pre' = h
    /\ heap' = result.heap
    /\ root' = IF result.err = "none" THEN result.root ELSE root
    /\ last' = [op |-> op, arg |-> root, payload |-> payload,
                thrown |-> result.err, flow |-> flow]
    /\ steps' = steps + 1
    /\ history' = Append(history, [op |-> op, payload |-> payload])
    /\ UNCHANGED <<start, initialState, stateSelector, reducerFunction, built,
                   pathWithoutProperty, propertyName, initialData, logged>>
    /\ UNCHANGED idVars

\* store.dispatch( action ): the action of a flow, created by its group
Dispatch(flow, op, h, action) ==
    InstallTwo(flow, op, h, action.payload,
               reducer(Registrations, action,
                       [heap |-> h, root |-> root, err |-> "none"]))

DispatchLoad ==
    /\ steps < MaxSteps
    /\ \E flow \in Flows :
          Dispatch(flow, "load", heap,
                   [type |-> TypeOf(flow, "load"), payload |-> Str(1),
                    data |-> Undefined, errors |-> Undefined])

DispatchLoadSuccess ==
    /\ steps < MaxSteps
    /\ \E flow \in Flows, lit \in SuccessPayloads :
          LET made == Materialize(Machine(heap, NoFields), "data", lit)
          IN  Dispatch(flow, "loadSuccess", made.heap,
                       [type |-> TypeOf(flow, "loadSuccess"),
                        payload |-> Reg(made, "data"),
                        data |-> Reg(made, "data"), errors |-> Undefined])

DispatchLoadFailure ==
    /\ steps < MaxSteps
    /\ \E flow \in Flows, lit \in FailurePayloads :
          LET made == Materialize(Machine(heap, NoFields), "errors", lit)
          IN  Dispatch(flow, "loadFailure", made.heap,
                       [type |-> TypeOf(flow, "loadFailure"),
                        payload |-> Reg(made, "errors"),
                        data |-> Undefined, errors |-> Reg(made, "errors")])

DispatchReset ==
    /\ steps < MaxSteps
    /\ \E flow \in Flows :
          Dispatch(flow, "reset", heap,
                   [type |-> TypeOf(flow, "reset"), payload |-> Undefined,
                    data |-> Undefined, errors |-> Undefined])

\* both groups created from different configs, both sets of handlers built,
\* the store holding the initial state
InitTwo ==
    /\ config1 \in TwoConfigs
    /\ config2 \in TwoConfigs \ {config1}
    /\ group1 = createDataFlowActions(config1)
    /\ group2 = createDataFlowActions(config2)
    /\ heap = BuildTwoState(<<>>).heap
    /\ root = BuildTwoState(<<>>).root
    /\ initialState = root
    /\ start = root
    /\ stateSelector = ListData
    /\ reducerFunction = "none"
    /\ built = "built"
    /\ pathWithoutProperty = getNestedStatePathName(ListData).pathWithoutProperty
    /\ propertyName = getNestedStatePathName(ListData).propertyName
    /\ initialData = At(heap, Ref(root), split(ListData))
    /\ logged = 0
    /\ pre = heap
    /\ last = NoCall
    /\ steps = 0
    /\ history = <<>>

NextTwo ==
    \/ DispatchLoad
    \/ DispatchLoadSuccess
    \/ DispatchLoadFailure
    \/ DispatchReset

SpecTwo == InitTwo /\ [][NextTwo]_vars

\* a property of the container of a flow in the state r
FlowProp(h, r, flow, name) ==
    LET segments == split(FlowSelector(flow))
        container == At(h, Ref(r), SubSeq(segments, 1, Len(segments) - 1))
    IN  IF container[1] = "ref" THEN Field(h[container[2]].f, name) ELSE Undefined

-----------------------------------------------------------------------------
(* Properties *)

\* C1: createDataFlowActions returns the identifiers "[source] action",
\* "[API] action Success", "[API] action Failure" and "[source] action Reset";
\* for source "Todo" and action "Load todo list" these are the four texts of
\* the end-to-end scenario.
C1_Identifiers ==
    group1.made =>
        /\ group1.load = "[" \o config1.source \o "] " \o config1.action
        /\ group1.loadSuccess = "[API] " \o config1.action \o " Success"
        /\ group1.loadFailure = "[API] " \o config1.action \o " Failure"
        /\ group1.reset = "[" \o config1.source \o "] " \o config1.action \o " Reset"
        /\ config1 = TodoConfig =>
              /\ group1.load = "[Todo] Load todo list"
              /\ group1.loadSuccess = "[API] Load todo list Success"
              /\ group1.loadFailure = "[API] Load todo list Failure"
              /\ group1.reset = "[Todo] Load todo list Reset"

C1_Witness ==
    /\ group1.made
    /\ config1 = TodoConfig
    /\ group1.loadSuccess = "[API] Load todo list Success"

\* C2: whatever state the store started in and whatever load, loadSuccess and
\* loadFailure calls came before, a reset of a nested selector returns a state
\* whose leaf is the value the initial state held when the handlers were
\* built, whose errors is an empty array and whose loading is false.
C2_ResetRestores ==
    (built = "built" /\ NestedSelector /\ last.op = "reset") =>
        /\ last.thrown = "none"
        /\ Prop(heap, root, LeafName) = Prop(heap, initialState, LeafName)
        /\ DeepEq(heap, Prop(heap, root, LeafName),
                  pre, Prop(pre, initialState, LeafName))
        /\ IsEmptyArray(heap, Prop(heap, root, "errors"))
        /\ Prop(heap, root, "loading") = Bool(FALSE)

C2_Witness ==
    /\ Returned("reset")
    /\ NestedSelector
    /\ steps >= 3
    /\ Prop(pre, last.arg, LeafName) # Prop(pre, initialState, LeafName)
    /\ Prop(heap, root, LeafName) = Prop(heap, initialState, LeafName)

\* C3: after a handler call, the state it was given and every object nested
\* in that state are as they were before the call.
C3_ArgumentUnchanged ==
    last.op # "none" =>
        \A i \in Reach(pre, {last.arg}, {}) : heap[i] = pre[i]

C3_Witness ==
    /\ Returned("loadSuccess")
    /\ root # last.arg
    /\ Prop(heap, root, LeafName) # Prop(heap, last.arg, LeafName)
    /\ Reach(pre, {last.arg}, {}) # {}

\* what the merge function alone makes of the state the last call was given,
\* with loading set to false and errors to an empty array at the addressed
\* container
MergeReference ==
    LET segments == split(stateSelector)
        m1 == ApplyReducerFunction(reducerFunction,
                  Machine(pre, ("state" :> Ref(last.arg))
                               @@ ("data" :> last.payload)))
        m2 == Move(m1, "nestedState", "nextState")
        m3 == Walk(m2, "nestedState", SubSeq(segments, 1, Len(segments) - 1))
        m4 == New(m3, "empty", NewArray(<<>>))
        m5 == Set(m4, "nestedState", "errors", "empty")
        m6 == Put(m5, "nestedState", "loading", Bool(FALSE))
    IN  [heap |-> m6.heap, val |-> Reg(m6, "nextState")]

\* C4: with a merge function, loadSuccess returns a state structurally equal
\* to what the merge function makes of the state and the payload, but for
\* loading = false and errors = [] at the addressed container.
C4_MergeDelegation ==
    (built = "built" /\ reducerFunction # "none" /\ last.op = "loadSuccess") =>
        /\ last.thrown = "none"
        /\ DeepEq(heap, Ref(root), MergeReference.heap, MergeReference.val)

\* C5: without a merge function, loadSuccess on any state of a nested
\* selector, also as the first call ever, returns a state whose leaf is the
\* payload's data, whose loading is false and whose errors is an empty array.
C5_DefaultSuccess ==
    (built = "built" /\ NestedSelector /\ reducerFunction = "none"
        /\ last.op = "loadSuccess") =>
        /\ last.thrown = "none"
        /\ Prop(heap, root, LeafName) = last.payload
        /\ Prop(heap, root, "loading") = Bool(FALSE)
        /\ IsEmptyArray(heap, Prop(heap, root, "errors"))

C5_Witness ==
    /\ Returned("loadSuccess")
    /\ NestedSelector
    /\ reducerFunction = "none"
    /\ steps = 1
    /\ Prop(pre, last.arg, LeafName) # last.payload
    /\ Prop(heap, root, LeafName) = last.payload

\* C6: load on any state of a nested selector returns a state whose loading is
\* true, whose errors is an empty array and whose leaf is the value it was.
C6_Load ==
    (built = "built" /\ NestedSelector /\ last.op = "load") =>
        /\ last.thrown = "none"
        /\ Prop(heap, root, "loading") = Bool(TRUE)
        /\ IsEmptyArray(heap, Prop(heap, root, "errors"))
        /\ Prop(heap, root, LeafName) = Prop(pre, last.arg, LeafName)

C6_Witness ==
    /\ Returned("load")
    /\ NestedSelector
    /\ ErrorsOf(pre, last.arg) # <<>>
    /\ Prop(pre, last.arg, "loading") = Bool(FALSE)
    /\ Prop(heap, root, "loading") = Bool(TRUE)

\* C7: loadFailure on any state of a nested selector returns a state whose
\* loading is false, whose errors is the payload's errors and nothing else,
\* and whose leaf is the value it was.
C7_LoadFailure ==
    (built = "built" /\ NestedSelector /\ last.op = "loadFailure") =>
        /\ last.thrown = "none"
        /\ Prop(heap, root, "loading") = Bool(FALSE)
        /\ Prop(heap, root, "errors") = last.payload
        /\ ErrorsOf(heap, root) = pre[last.payload[2]].elems
        /\ Prop(heap, root, LeafName) = Prop(pre, last.arg, LeafName)

C7_Witness ==
    /\ Returned("loadFailure")
    /\ NestedSelector
    /\ ErrorsOf(pre, last.arg) # <<>>
    /\ ErrorsOf(heap, root) # ErrorsOf(pre, last.arg)
    /\ ErrorsOf(heap, root) = pre[last.payload[2]].elems

\* C8: the identifiers of two configs that differ in source or in action are
\* disjoint.
C8_GroupsDisjoint ==
    (group1.made /\ group2.made /\ config1 # config2) =>
        Identifiers(group1) \cap Identifiers(group2) = {}

\* C9: the four identifiers of one config are pairwise distinct.
C9_FourDistinct ==
    group1.made => Cardinality(Identifiers(group1)) = 4

C9_Witness ==
    /\ group1.made
    /\ config1.source = "API"
    /\ config1.action = "Load Success"

\* C10: with a single-segment selector the diagnostic is logged and nothing is
\* raised: the handlers are built, and each handler called returns a state
\* with its bookkeeping (and leaf write) applied to the root state object.
C10_SingleSegment ==
    (~NestedSelector /\ built # "no") =>
        /\ built = "built"
        /\ logged = 1
        /\ last.op # "none" =>
              /\ last.thrown = "none"
              /\ Prop(heap, root, "loading") = Bool(last.op = "load")
              /\ last.op # "loadFailure" =>
                    IsEmptyArray(heap, Prop(heap, root, "errors"))
              /\ last.op = "loadFailure" =>
                    Prop(heap, root, "errors") = last.payload
              /\ last.op = "loadSuccess" =>
                    Prop(heap, root, LeafName) = last.payload
              /\ last.op = "reset" =>
                    Prop(heap, root, LeafName) = Prop(heap, initialState, LeafName)

\* C11: from a start state whose addressed container has a boolean loading
\* and an array errors, after every sequence of load, loadSuccess, loadFailure
\* and reset calls, in any order and with any repetition, the container still
\* has a boolean loading and an array errors; and the loading and errors a
\* call returns are fixed by which call it was and by its payload alone
\* (loading is true after load and false otherwise, errors is the payload's
\* after loadFailure and empty otherwise), whatever they were before.
C11_OrderInsensitive ==
    (NestedSelector /\ WellFormed(heap, start)) =>
        /\ WellFormed(heap, root)
        /\ (built = "built" /\ last.op # "none" /\ last.thrown = "none") =>
              /\ Prop(heap, root, "loading") = Bool(last.op = "load")
              /\ ErrorsOf(heap, root) = IF last.op = "loadFailure"
                                        THEN pre[last.payload[2]].elems
                                        ELSE <<>>

\* a loadFailure that no load preceded, on a state that already holds errors,
\* after a reset
C11_Witness ==
    /\ Returned("loadFailure")
    /\ NestedSelector
    /\ Len(history) = 2
    /\ history[1].op = "reset"
    /\ WellFormed(heap, root)
    /\ ErrorsOf(heap, root) # <<>>
    /\ Prop(heap, root, "loading") = Bool(FALSE)

\* C12: when two loads with different parameters are followed by one
\* loadSuccess (no merge function), whichever load that result answers, the
\* state returned has the result's data as its leaf and loading false: the
\* second load still being outstanding changes nothing.
C12_StaleSuccessApplies ==
    (/\ NestedSelector
     /\ reducerFunction = "none"
     /\ Len(history) = 3
     /\ history[1].op = "load"
     /\ history[2].op = "load"
     /\ history[1].payload # history[2].payload
     /\ history[3].op = "loadSuccess") =>
        /\ last.thrown = "none"
        /\ Prop(heap, root, LeafName) = history[3].payload
        /\ Prop(heap, root, "loading") = Bool(FALSE)

C12_Witness ==
    /\ Returned("loadSuccess")
    /\ NestedSelector
    /\ reducerFunction = "none"
    /\ history[1] = [op |-> "load", payload |-> Str(1)]
    /\ history[2] = [op |-> "load", payload |-> Str(2)]
    /\ Prop(pre, last.arg, "loading") = Bool(TRUE)
    /\ Prop(pre, last.arg, LeafName) # last.payload
    /\ Prop(heap, root, LeafName) = last.payload
    /\ Prop(heap, root, "loading") = Bool(FALSE)

\* C13: when a segment before the leaf is undefined or null in the initial
\* state, onActionGroup raises while building the handlers; when it is so in
\* the state a handler is called with, the handler raises, the error reaches
\* the caller, and the state passed in, with everything nested in it, is as it
\* was and remains the store's state.
C13_MissingContainerRaises ==
    /\ (built # "no" /\ MissingContainer(heap, initialState)) => built = "raised"
    /\ (last.op # "none" /\ MissingContainer(pre, last.arg)) =>
          /\ last.thrown # "none"
          /\ root = last.arg
          /\ \A i \in Reach(pre, {last.arg}, {}) : heap[i] = pre[i]

\* a handler called on a state whose container is null has raised
C13_Witness ==
    /\ built = "built"
    /\ last.op = "loadSuccess"
    /\ stateSelector = ABC
    /\ At(pre, Ref(last.arg), split(<<"a">>))[1] = "ref"
    /\ At(pre, Ref(last.arg), split(<<"a", Dot, "b">>)) = Null
    /\ last.thrown = "TypeError"
    /\ root = last.arg

\* C14 (as claimed): every handler call that returns, returns a state that is
\* a different object from the state it was given, and so is every object on
\* the way down to the addressed container, also when the values written are
\* the ones already there.
C14_AlwaysNewObjects ==
    (NestedSelector /\ built = "built" /\ last.op # "none"
        /\ last.thrown = "none") =>
        \A n \in DOMAIN Levels(heap, root) :
            Levels(heap, root)[n] # Levels(pre, last.arg)[n]

\* C14 (amended): a handler call that returns gives new objects at the root
\* and at every level down to the addressed container, except the loadFailure
\* that carries the very errors array the state holds, on a state whose
\* loading is already false: that call returns the object it was given.
C14_NewObjectsUnlessNothingNew ==
    (NestedSelector /\ built = "built" /\ last.op # "none"
        /\ last.thrown = "none") =>
        IF WritesNothingNew
        THEN root = last.arg
        ELSE \A n \in DOMAIN Levels(heap, root) :
                Levels(heap, root)[n] # Levels(pre, last.arg)[n]

C14_Witness ==
    /\ Returned("loadFailure")
    /\ NestedSelector
    /\ WritesNothingNew
    /\ ErrorsOf(pre, last.arg) # <<>>
    /\ root = last.arg

\* C15: for a selector of two or more segments, propertyName is the last
\* segment, pathWithoutProperty is the earlier segments joined by ".", and
\* parentName is the second-to-last segment, at depth two and three; and every
\* handler call writes its loading into the object reached from the root by
\* walking the earlier segments (loadSuccess taken without a merge function).
C15_PathDecomposition ==
    (NestedSelector /\ built = "built") =>
        /\ propertyName = AfterLastDot(stateSelector)
        /\ pathWithoutProperty = BeforeLastDot(stateSelector)
        /\ getNestedStatePathName(stateSelector).parentName
              = AfterLastDot(BeforeLastDot(stateSelector))
        /\ (last.op # "none"
              /\ (last.op = "loadSuccess" => reducerFunction = "none")) =>
              /\ last.thrown = "none"
              /\ At(heap, Ref(root), split(BeforeLastDot(stateSelector)))[1] = "ref"
              /\ Field(heap[At(heap, Ref(root),
                                split(BeforeLastDot(stateSelector)))[2]].f,
                       "loading") = Bool(last.op = "load")

\* three segments: the container is two objects below the root
C15_Witness ==
    /\ Returned("load")
    /\ stateSelector = ABC
    /\ propertyName = <<"c">>
    /\ pathWithoutProperty = <<"a", Dot, "b">>
    /\ getNestedStatePathName(stateSelector).parentName = <<"b">>
    /\ Prop(pre, last.arg, "loading") = Bool(FALSE)
    /\ Field(heap[At(heap, Ref(root), <<<<"a">>, <<"b">>>>)[2]].f, "loading") = Bool(TRUE)

\* C16: for a selector of one segment, the decomposition completes without
\* raising, propertyName is that segment and pathWithoutProperty is that same
\* segment.
C16_SingleSegmentNames ==
    (~NestedSelector /\ built # "no") =>
        /\ built = "built"
        /\ propertyName = stateSelector
        /\ pathWithoutProperty = stateSelector

\* C17: after reset, the whole addressed container (leaf, loading, errors and
\* every other field) equals the container of the initial state, as after the
\* README's hand-written reset reducer, which replaces the container with a
\* copy of the initial one.
C17_ResetEqualsReadme ==
    (NestedSelector /\ built = "built" /\ last.op = "reset") =>
        /\ last.thrown = "none"
        /\ DeepEq(heap, AddressedContainer(heap, root),
                  heap, AddressedContainer(heap, initialState))

\* C18: when the store starts with a container whose loading is false and
\* whose errors is empty, then in every state reached by load, loadSuccess,
\* loadFailure and reset calls, with or without a merge function, loading true
\* implies errors empty.
C18_LoadingImpliesNoErrors ==
    (/\ Prop(heap, start, "loading") = Bool(FALSE)
     /\ IsEmptyArray(heap, Prop(heap, start, "errors"))) =>
        (Prop(heap, root, "loading") = Bool(TRUE) =>
            IsEmptyArray(heap, Prop(heap, root, "errors")))

\* a load after a failure: the errors of the failure are gone
C18_Witness ==
    /\ Returned("load")
    /\ Prop(heap, start, "loading") = Bool(FALSE)
    /\ IsEmptyArray(heap, Prop(heap, start, "errors"))
    /\ history[1].op = "loadFailure"
    /\ ErrorsOf(pre, last.arg) # <<>>
    /\ Prop(heap, root, "loading") = Bool(TRUE)
    /\ IsEmptyArray(heap, Prop(heap, root, "errors"))

\* C19: without a merge function, a handler call changes at most loading,
\* errors and the leaf of the addressed container: every other property of the
\* container, and every property of the objects above it but the one leading
\* down to it, has the value it had.
C19_Frame ==
    (NestedSelector /\ reducerFunction = "none" /\ built = "built"
        /\ last.op # "none") =>
        /\ last.thrown = "none"
        /\ \A n \in 1..Len(split(stateSelector)) :
              SameBut(pre, Levels(pre, last.arg)[n], heap, Levels(heap, root)[n],
                      IF n = Len(split(stateSelector))
                      THEN {"loading", "errors", LeafName}
                      ELSE {Key(split(stateSelector)[n])})

\* a loadSuccess on a state whose container holds a page that is not the
\* initial one: the page and the root's count are kept
C19_Witness ==
    /\ Returned("loadSuccess")
    /\ NestedSelector
    /\ reducerFunction = "none"
    /\ root # last.arg
    /\ Prop(pre, last.arg, LeafName) # Prop(heap, root, LeafName)
    /\ Prop(pre, last.arg, "page") = Num(3)
    /\ Prop(heap, root, "page") = Num(3)
    /\ Field(heap[root].f, "count") = Num(0)

\* C20: with the handlers of two groups made from different configs
\* registered for 'list.data' and 'details.data' in one reducer, an action of
\* one group dispatched leaves the leaf, loading and errors of the other
\* group's container as they were, in every interleaving.
C20_FlowsIsolated ==
    (group2.made /\ last.op # "none") =>
        \A name \in {"data", "loading", "errors"} :
            FlowProp(heap, root, 3 - last.flow, name)
                = FlowProp(pre, last.arg, 3 - last.flow, name)

====
